---- MODULE Spec2Model ----
(***************************************************************************)
(* Object-selection store of the editor (useObjectSelectionStore), the     *)
(* click handler of the preview panel (handleVideoClick) and the binding   *)
(* of newly registered objects into the timeline.                          *)
(*                                                                         *)
(* Time is counted in integer milliseconds; a ratio of two integers is the *)
(* record [num, den], so no quotient is rounded by the model.              *)
(***************************************************************************)
EXTENDS Integers, Sequences, FiniteSets, TLC

VARIABLES
    selectedObjects,        \* SegmentedObject[]            (store field)
    isSelectionMode,        \* boolean                      (store field)
    isProcessingSelection,  \* boolean                      (store field)
    pendingClick,           \* ClickCoordinate | null       (store field)
    segmentedObjects,       \* Map<objectId, SegmentedObject>
    objectsByVideo,         \* Map<videoId, objectId[]>
    tracks,                 \* useTimelineStore.getState().tracks
    timelineFault,          \* which timeline call throws, if any
    request,                \* the external segmentation request: none / inflight
    recovery,               \* history: failed -> off -> on since the last failure
    inserts,                \* history: how many objects have been registered
    updateCalls,            \* history: how many times updateSegmentedObject ran
    intermediate,           \* history: the states the last handler's set() calls
                            \*          showed to subscribers before its last one
    op                      \* history: the last operation called and its arguments

vars == <<selectedObjects, isSelectionMode, isProcessingSelection, pendingClick,
          segmentedObjects, objectsByVideo, tracks, timelineFault, request,
          recovery, inserts, updateCalls, intermediate, op>>

storeVars == <<selectedObjects, isSelectionMode, isProcessingSelection,
               pendingClick, segmentedObjects, objectsByVideo>>

registryVars == <<selectedObjects, segmentedObjects, objectsByVideo>>

sessionVars == <<isSelectionMode, isProcessingSelection, pendingClick>>

-----------------------------------------------------------------------------
(* Bounds of the model *)

MaxInserts == 2     \* how many objects a run registers

MaxSelected == 2    \* longest selectedObjects a select may extend

MaxUpdates == 2     \* how many times a run calls updateSegmentedObject

(* Program constants *)

DefaultFps == 30            \* mediaItem.fps || 30

BindingFps == 30            \* const fps = 30 in createObjectTimelineElement

MinDurationDen == 10        \* Math.max(duration, 0.1): 0.1 s = 1 / 10

ToleranceFrames == 2        \* Math.abs(box.frame - frame) < 2

-----------------------------------------------------------------------------
(* Value domains *)

ObjectIds == {"o1", "o2"}

VideoIds == {"v1", "v2"}

Statuses == {"segmenting", "tracking", "ready", "error"}

\* null and undefined: a value equal to no object and no click
null == [null |-> TRUE]

NoFps == 0          \* mediaItem.fps undefined (falsy)

NoVideoId == ""     \* mediaItem.videoId undefined (falsy)

Ratio(n, d) == [num |-> n, den |-> d]

RatLess(a, b) == a.num * b.den < b.num * a.den

RatMax(a, b) == IF RatLess(a, b) THEN b ELSE a

Box(f) == [frame |-> f, x |-> 10, y |-> 20, width |-> 30, height |-> 40]

FramesOf(id) == IF id = "o1" THEN <<10, 12, 14>> ELSE <<5>>

BoxesOf(frames) == [i \in 1..Len(frames) |-> Box(frames[i])]

\* interface SegmentedObject (createdAt and maskUrl carry no behaviour)
SegmentedObject(id, videoId, status) ==
    [id |-> id, videoId |-> videoId, trackId |-> "", name |-> id,
     frames |-> FramesOf(id), boundingBoxes |-> BoxesOf(FramesOf(id)),
     confidence |-> 90, status |-> status]

\* the status a segmentation result carries, and the ones tracking moves it to
InsertStatuses == {"segmenting"}

UpdateStatuses == {"ready", "segmenting"}

\* the objects a segmentation result may carry: o1 on either video, o2 on v1
ObjectInputs ==
    {SegmentedObject(id, v, s) : id \in ObjectIds, v \in VideoIds,
                                 s \in InsertStatuses}
        \ {SegmentedObject("o2", "v2", s) : s \in InsertStatuses}

\* the id an update may write into an object
RenameIds == {"o1"}

\* Partial<SegmentedObject>: the fields an update names
\* the updates tracking makes: a new status
StatusUpdates == {[status |-> s] : s \in UpdateStatuses}

UpdateInputs ==
    {[status |-> s] : s \in UpdateStatuses}
        \cup {[videoId |-> v] : v \in VideoIds}
        \cup {[id |-> i] : i \in RenameIds}

-----------------------------------------------------------------------------
(* Map helpers: a Map is a function whose domain is its key set *)

EmptyMap == [k \in {} |-> k]

MapHas(m, k) == k \in DOMAIN m

MapSet(m, k, v) == [x \in (DOMAIN m) \cup {k} |-> IF x = k THEN v ELSE m[x]]

MapDelete(m, k) == [x \in (DOMAIN m) \ {k} |-> m[x]]

\* map.get(k) || []
GetOrEmpty(m, k) == IF k \in DOMAIN m THEN m[k] ELSE <<>>

\* array.filter(keep)
Filter(s, keep(_)) == SelectSeq(s, keep)

\* array.findIndex(test): 0 stands for -1
FindIndex(s, test(_)) ==
    IF \E i \in 1..Len(s) : test(s[i])
    THEN CHOOSE i \in 1..Len(s) : test(s[i]) /\ \A j \in 1..(i - 1) : ~test(s[j])
    ELSE 0

\* array.some(test)
Some(s, test(_)) == \E i \in 1..Len(s) : test(s[i])

\* mutant: { ...updates, ...object }, the stored fields win
Merge_ObjectWins(object, updates) ==
    [f \in (DOMAIN object) \cup (DOMAIN updates) |->
        IF f \in DOMAIN object THEN object[f] ELSE updates[f]]

\* { ...object, ...updates }
Merge(object, updates) ==
    [f \in (DOMAIN object) \cup (DOMAIN updates) |->
        IF f \in DOMAIN updates THEN updates[f] ELSE object[f]]

SeqMin(s) == CHOOSE m \in {s[i] : i \in 1..Len(s)} : \A i \in 1..Len(s) : m <= s[i]

SeqMax(s) == CHOOSE m \in {s[i] : i \in 1..Len(s)} : \A i \in 1..Len(s) : m >= s[i]

Abs(n) == IF n < 0 THEN -n ELSE n

-----------------------------------------------------------------------------
(* The store: one record holding the fields that set() replaces *)

Store ==
    [selectedObjects |-> selectedObjects,
     isSelectionMode |-> isSelectionMode,
     isProcessingSelection |-> isProcessingSelection,
     pendingClick |-> pendingClick,
     segmentedObjects |-> segmentedObjects,
     objectsByVideo |-> objectsByVideo]

\* create<ObjectSelectionState>: the initial state
InitialStore ==
    [selectedObjects |-> <<>>,
     isSelectionMode |-> FALSE,
     isProcessingSelection |-> FALSE,
     pendingClick |-> null,
     segmentedObjects |-> EmptyMap,
     objectsByVideo |-> EmptyMap]

\* get() after a handler: the state its last set() published, or the state
\* it started from when it called set() not at all
Final(st, sets) == IF sets = <<>> THEN st ELSE sets[Len(sets)]

\* what a subscriber is shown while the handler is still running: every
\* published state but the last
Before(sets) == IF sets = <<>> THEN <<>> ELSE SubSeq(sets, 1, Len(sets) - 1)

\* mutant: the selection is left as it is
clearSelection_Keeps(st) == st

clearSelection(st) == [st EXCEPT !.selectedObjects = <<>>]

\* mutant: the flag is stored negated
setSelectionMode_Negated(st, enabled) ==
    LET s1 == [st EXCEPT !.isSelectionMode = ~enabled]
    IN IF ~enabled
       THEN clearSelection([s1 EXCEPT !.pendingClick = null])
       ELSE s1

\* mutant: disabling also resets the processing flag
setSelectionMode_ResetsProcessing(st, enabled) ==
    LET s1 == [st EXCEPT !.isSelectionMode = enabled]
    IN IF ~enabled
       THEN clearSelection([s1 EXCEPT !.pendingClick = null,
                                      !.isProcessingSelection = FALSE])
       ELSE s1

\* mutant: the pending click and the selection are cleared on every call
setSelectionModeSets_AlwaysClears(st, enabled) ==
    LET s1 == [st EXCEPT !.isSelectionMode = enabled]
        s2 == [s1 EXCEPT !.pendingClick = null]
    IN <<s1, s2, clearSelection(s2)>>

\* the states setSelectionMode publishes: one per set() call
setSelectionModeSets(st, enabled) ==
    LET s1 == [st EXCEPT !.isSelectionMode = enabled]
        s2 == [s1 EXCEPT !.pendingClick = null]
    IN IF ~enabled
       THEN <<s1, s2, clearSelection(s2)>>
       ELSE <<s1>>

setSelectionMode(st, enabled) == Final(st, setSelectionModeSets(st, enabled))

\* videoId is a parameter the store never reads
addClickCoordinate(st, click, videoId) ==
    [st EXCEPT !.pendingClick = click, !.isProcessingSelection = TRUE]

clearPendingClick(st) == [st EXCEPT !.pendingClick = null]

\* mutant: the argument is ignored and the flag is raised
setProcessingSelection_AlwaysTrue(st, processing) ==
    [st EXCEPT !.isProcessingSelection = TRUE]

setProcessingSelection(st, processing) ==
    [st EXCEPT !.isProcessingSelection = processing]

\* mutant: the id is not appended to the bucket of the video
registerObject_Unlisted(st, object) ==
    [st EXCEPT
        !.segmentedObjects = MapSet(st.segmentedObjects, object.id, object)]

\* mutant: an id the bucket already lists is not appended again
registerObject_Dedup(st, object) ==
    LET videoObjects == GetOrEmpty(st.objectsByVideo, object.videoId)
    IN [st EXCEPT
          !.segmentedObjects = MapSet(st.segmentedObjects, object.id, object),
          !.objectsByVideo =
              MapSet(st.objectsByVideo, object.videoId,
                     IF Some(videoObjects, LAMBDA id : id = object.id)
                     THEN videoObjects
                     ELSE Append(videoObjects, object.id))]

\* the set() of addSegmentedObject: primary map and video bucket
registerObject(st, object) ==
    LET videoObjects == GetOrEmpty(st.objectsByVideo, object.videoId)
    IN [st EXCEPT
          !.segmentedObjects = MapSet(st.segmentedObjects, object.id, object),
          !.objectsByVideo =
              MapSet(st.objectsByVideo, object.videoId,
                     Append(videoObjects, object.id))]

\* mutant: an id that is not registered is inserted with the updates as object
updateSegmentedObjectSets_Upsert(st, objectId, updates) ==
    LET object == IF MapHas(st.segmentedObjects, objectId)
                  THEN st.segmentedObjects[objectId]
                  ELSE updates
        updatedObject == Merge(object, updates)
        s1 == [st EXCEPT !.segmentedObjects =
                   MapSet(st.segmentedObjects, objectId, updatedObject)]
        selectedIndex ==
            FindIndex(s1.selectedObjects, LAMBDA obj : obj.id = objectId)
    IN IF selectedIndex # 0
       THEN <<s1,
              [s1 EXCEPT !.selectedObjects =
                  [s1.selectedObjects EXCEPT ![selectedIndex] = updatedObject]]>>
       ELSE <<s1>>

\* the states updateSegmentedObject publishes: set({ segmentedObjects }) and,
\* for a selected object, set({ selectedObjects }) after it
updateSegmentedObjectSets(st, objectId, updates) ==
    IF MapHas(st.segmentedObjects, objectId)
    THEN LET object == st.segmentedObjects[objectId]
             updatedObject == Merge(object, updates)
             s1 == [st EXCEPT !.segmentedObjects =
                        MapSet(st.segmentedObjects, objectId, updatedObject)]
             selectedIndex ==
                 FindIndex(s1.selectedObjects, LAMBDA obj : obj.id = objectId)
         IN IF selectedIndex # 0
            THEN <<s1,
                   [s1 EXCEPT !.selectedObjects =
                       [s1.selectedObjects EXCEPT ![selectedIndex] = updatedObject]]>>
            ELSE <<s1>>
    ELSE <<>>

updateSegmentedObject(st, objectId, updates) ==
    Final(st, updateSegmentedObjectSets(st, objectId, updates))

removeSegmentedObject(st, objectId) ==
    IF MapHas(st.segmentedObjects, objectId)
    THEN LET object == st.segmentedObjects[objectId]
             videoObjects == GetOrEmpty(st.objectsByVideo, object.videoId)
         IN [st EXCEPT
               !.segmentedObjects = MapDelete(st.segmentedObjects, objectId),
               !.objectsByVideo =
                   MapSet(st.objectsByVideo, object.videoId,
                          Filter(videoObjects, LAMBDA id : id # objectId)),
               !.selectedObjects =
                   Filter(st.selectedObjects, LAMBDA obj : obj.id # objectId)]
    ELSE st

\* mutant: one set() per field, the primary map first
removeSegmentedObjectSets_PerField(st, objectId) ==
    IF MapHas(st.segmentedObjects, objectId)
    THEN LET done == removeSegmentedObject(st, objectId)
             s1 == [st EXCEPT !.segmentedObjects = done.segmentedObjects]
             s2 == [s1 EXCEPT !.objectsByVideo = done.objectsByVideo]
         IN <<s1, s2, done>>
    ELSE <<>>

\* the states removeSegmentedObject publishes: its one set() call
removeSegmentedObjectSets(st, objectId) ==
    IF MapHas(st.segmentedObjects, objectId)
    THEN <<removeSegmentedObject(st, objectId)>>
    ELSE <<>>

selectObject(st, objectId) ==
    IF MapHas(st.segmentedObjects, objectId)
          /\ ~Some(st.selectedObjects, LAMBDA obj : obj.id = objectId)
    THEN [st EXCEPT !.selectedObjects =
              Append(st.selectedObjects, st.segmentedObjects[objectId])]
    ELSE st

\* mutant: the filter keeps the entry it should drop
deselectObject_Inverted(st, objectId) ==
    [st EXCEPT !.selectedObjects =
         Filter(st.selectedObjects, LAMBDA obj : obj.id = objectId)]

deselectObject(st, objectId) ==
    [st EXCEPT !.selectedObjects =
         Filter(st.selectedObjects, LAMBDA obj : obj.id # objectId)]

\* objectIds.map(id => segmentedObjects.get(id)).filter(obj => obj !== undefined)
getObjectsByVideo(st, videoId) ==
    LET objectIds == GetOrEmpty(st.objectsByVideo, videoId)
        present == Filter(objectIds, LAMBDA id : MapHas(st.segmentedObjects, id))
    IN [i \in 1..Len(present) |-> st.segmentedObjects[present[i]]]

getSelectedObject(st) ==
    IF Len(st.selectedObjects) > 0 THEN st.selectedObjects[1] ELSE null

-----------------------------------------------------------------------------
(* Timeline binding *)

\* mutant: the element is labelled with the id and a full confidence
createObjectTimelineElement_Relabelled(object) ==
    [type |-> "object",
     name |-> object.id,
     objectId |-> object.id,
     videoId |-> object.videoId,
     confidence |-> 100,
     visible |-> TRUE,
     operation |-> null,
     duration |-> RatMax(Ratio(SeqMax(object.frames) - SeqMin(object.frames) + 1,
                               BindingFps),
                         Ratio(1, MinDurationDen)),
     startTime |-> Ratio(SeqMin(object.frames), BindingFps),
     trimStart |-> 0,
     trimEnd |-> 0]

\* mutant: the duration is not floored
createObjectTimelineElement_NoFloor(object) ==
    [type |-> "object",
     name |-> object.name,
     objectId |-> object.id,
     videoId |-> object.videoId,
     confidence |-> object.confidence,
     visible |-> TRUE,
     operation |-> null,
     duration |-> Ratio(SeqMax(object.frames) - SeqMin(object.frames) + 1,
                        BindingFps),
     startTime |-> Ratio(SeqMin(object.frames), BindingFps),
     trimStart |-> 0,
     trimEnd |-> 0]

createObjectTimelineElement(object) ==
    LET startFrame == SeqMin(object.frames)
        endFrame == SeqMax(object.frames)
        fps == BindingFps
        duration == Ratio(endFrame - startFrame + 1, fps)
        startTime == Ratio(startFrame, fps)
    IN [type |-> "object",
        name |-> object.name,
        objectId |-> object.id,
        videoId |-> object.videoId,
        confidence |-> object.confidence,
        visible |-> TRUE,
        operation |-> null,
        duration |-> RatMax(duration, Ratio(1, MinDurationDen)),
        startTime |-> startTime,
        trimStart |-> 0,
        trimEnd |-> 0]

Track(id, type) == [id |-> id, type |-> type, elements |-> <<>>]

\* timeline store: addTrack(type) publishes a new tracks array with one more track
addTrack(tr, type) == Append(tr, Track(Len(tr) + 1, type))

\* timeline store: addElementToTrack(trackId, element)
addElementToTrack(tr, trackId, element) ==
    [i \in 1..Len(tr) |->
        IF tr[i].id = trackId
        THEN [tr[i] EXCEPT !.elements = Append(tr[i].elements, element)]
        ELSE tr[i]]

\* mutant: the last object track instead of the first
findObjectTrack_Last(tr) ==
    IF \E i \in DOMAIN tr : tr[i].type = "object"
    THEN CHOOSE i \in DOMAIN tr :
             /\ tr[i].type = "object"
             /\ \A j \in DOMAIN tr : tr[j].type = "object" => j <= i
    ELSE 0

\* timelineStore.tracks.find(track => track.type === "object"): 0 stands for undefined
findObjectTrack(tr) == FindIndex(tr, LAMBDA track : track.type = "object")

TimelineFailures == {"none", "addTrack", "addElementToTrack"}

\* the try block of addSegmentedObject. timelineStore is the state object read
\* once by getState(); the timeline store publishes a new tracks array on every
\* change, so both find calls read the array as it was before addTrack.
bindToTimeline(tr, timelineElement, fail) ==
    LET timelineStore == [tracks |-> tr]
        first == findObjectTrack(timelineStore.tracks)
    IN IF first = 0
       THEN IF fail = "addTrack"
            THEN tr
            ELSE LET created == addTrack(tr, "object")
                     again == findObjectTrack(timelineStore.tracks)
                 IN IF again # 0
                    THEN IF fail = "addElementToTrack"
                         THEN created
                         ELSE addElementToTrack(created,
                                  timelineStore.tracks[again].id, timelineElement)
                    ELSE created
       ELSE IF fail = "addElementToTrack"
            THEN tr
            ELSE addElementToTrack(tr, timelineStore.tracks[first].id,
                                   timelineElement)

\* mutant: a failed timeline step undoes the registration
addSegmentedObject_RollsBack(st, tr, object, fail) ==
    LET failed == \/ findObjectTrack(tr) = 0 /\ fail = "addTrack"
                  \/ findObjectTrack(tr) # 0 /\ fail = "addElementToTrack"
    IN [store |-> IF failed THEN st ELSE registerObject(st, object),
        tracks |-> bindToTimeline(tr, createObjectTimelineElement(object), fail)]

addSegmentedObject(st, tr, object, fail) ==
    [store |-> registerObject(st, object),
     tracks |-> bindToTimeline(tr, createObjectTimelineElement(object), fail)]

-----------------------------------------------------------------------------
(* The click handler of the preview panel *)

\* mutant: the nearest frame instead of the frame under the playhead
FloorFrames_Round(ms, fps) == ((ms * fps) + 500) \div 1000

\* Math.floor(seconds * fps) for a time given in milliseconds
FloorFrames(ms, fps) == (ms * fps) \div 1000

\* mutant: the fps is taken as the media item reports it
clickFrame_NoDefault(currentTime, element, mediaItem) ==
    FloorFrames(currentTime - element.startTime + element.trimStart,
                mediaItem.fps)

\* handleVideoClick: the frame under the playhead
clickFrame(currentTime, element, mediaItem) ==
    LET videoCurrentTime == currentTime - element.startTime + element.trimStart
        fps == IF mediaItem.fps # NoFps THEN mediaItem.fps ELSE DefaultFps
    IN FloorFrames(videoCurrentTime, fps)

\* handleVideoClick: the ClickCoordinate built from the pointer event
clickCoordinate(e, currentTime, element, mediaItem) ==
    [x |-> Ratio(e.clientX - e.rect.left, e.rect.width),
     y |-> Ratio(e.clientY - e.rect.top, e.rect.height),
     timestamp |-> currentTime,
     frame |-> clickFrame(currentTime, element, mediaItem)]

\* mutant: the guard forgets isProcessingSelection
handleVideoClick_NoProcessingGuard(st, e, currentTime, element, mediaItem) ==
    IF ~st.isSelectionMode
    THEN st
    ELSE IF mediaItem.videoId # NoVideoId
         THEN addClickCoordinate(st,
                  clickCoordinate(e, currentTime, element, mediaItem),
                  mediaItem.videoId)
         ELSE st

\* mutant: the guard forgets isSelectionMode
handleVideoClick_NoModeGuard(st, e, currentTime, element, mediaItem) ==
    IF st.isProcessingSelection
    THEN st
    ELSE IF mediaItem.videoId # NoVideoId
         THEN addClickCoordinate(st,
                  clickCoordinate(e, currentTime, element, mediaItem),
                  mediaItem.videoId)
         ELSE st

handleVideoClick(st, e, currentTime, element, mediaItem) ==
    IF ~st.isSelectionMode \/ st.isProcessingSelection
    THEN st
    ELSE IF mediaItem.videoId # NoVideoId
         THEN addClickCoordinate(st,
                  clickCoordinate(e, currentTime, element, mediaItem),
                  mediaItem.videoId)
         ELSE st

-----------------------------------------------------------------------------
(* The object overlay of the preview panel *)

\* mutant: the trimmed start of the element is not added
queryFrame_NoTrim(currentTime, element, mediaItem) ==
    FloorFrames(currentTime - element.startTime,
                IF mediaItem.fps # NoFps THEN mediaItem.fps ELSE DefaultFps)

\* Math.floor((currentTime - element.startTime + element.trimStart)
\*            * (mediaItem.fps || 30)): the frame the overlay is resolved at
queryFrame(currentTime, element, mediaItem) ==
    FloorFrames(currentTime - element.startTime + element.trimStart,
                IF mediaItem.fps # NoFps THEN mediaItem.fps ELSE DefaultFps)

\* the tolerance window closed at both ends
currentFrameBox_Inclusive(obj, frame) ==
    LET found == FindIndex(obj.boundingBoxes,
                           LAMBDA box : Abs(box.frame - frame) <= ToleranceFrames)
    IN IF found = 0 THEN null ELSE obj.boundingBoxes[found]

\* the nearest box of the window, the earlier one of two equally near
currentFrameBox_Nearest(obj, frame) ==
    LET near == {k \in DOMAIN obj.boundingBoxes :
                    Abs(obj.boundingBoxes[k].frame - frame) < ToleranceFrames}
        best == CHOOSE k \in near :
                    \A j \in near :
                        \/ Abs(obj.boundingBoxes[k].frame - frame)
                               < Abs(obj.boundingBoxes[j].frame - frame)
                        \/ /\ Abs(obj.boundingBoxes[k].frame - frame)
                                  = Abs(obj.boundingBoxes[j].frame - frame)
                           /\ k <= j
    IN IF near = {} THEN null ELSE obj.boundingBoxes[best]

\* the matching box moved to the queried frame
currentFrameBox_Snapped(obj, frame) ==
    LET found == FindIndex(obj.boundingBoxes,
                           LAMBDA box : Abs(box.frame - frame) < ToleranceFrames)
    IN IF found = 0 THEN null
       ELSE [obj.boundingBoxes[found] EXCEPT !.frame = frame]

\* obj.boundingBoxes.find(box => Math.abs(box.frame - frame) < 2);
\* null stands for undefined
currentFrameBox(obj, frame) ==
    LET found == FindIndex(obj.boundingBoxes,
                           LAMBDA box : Abs(box.frame - frame) < ToleranceFrames)
    IN IF found = 0 THEN null ELSE obj.boundingBoxes[found]

\* renderElement for a video element: what videoObjects.map computes for each
\* object; an entry whose currentFrameBox is null draws nothing
renderElement(st, currentTime, element, mediaItem) ==
    LET hasSemanticData == mediaItem.videoId # NoVideoId
        videoObjects == IF hasSemanticData
                        THEN getObjectsByVideo(st, mediaItem.videoId)
                        ELSE <<>>
    IN [i \in 1..Len(videoObjects) |->
           [obj |-> videoObjects[i],
            isSelected |-> Some(st.selectedObjects,
                                LAMBDA selected : selected.id = videoObjects[i].id),
            currentFrameBox |->
                currentFrameBox(videoObjects[i],
                                queryFrame(currentTime, element, mediaItem))]]

-----------------------------------------------------------------------------
(* Inputs of the preview panel *)

\* pointer events inside a display rectangle of 200 x 100 at (20, 10)
DisplayRect == [left |-> 20, top |-> 10, width |-> 200, height |-> 100]

ClickEvents ==
    {[clientX |-> 120, clientY |-> 60, rect |-> DisplayRect],
     [clientX |-> 70, clientY |-> 35, rect |-> DisplayRect]}

\* media items: a semantic video with and without fps, and a plain video
MediaItems ==
    {[fps |-> NoFps, videoId |-> "v1"],
     [fps |-> 24, videoId |-> "v1"],
     [fps |-> 24, videoId |-> NoVideoId]}

\* the timeline element showing the video
VideoElements == {[startTime |-> 0, trimStart |-> 0]}

\* playback positions, in milliseconds
PlaybackTimes == {2000}

\* playback positions around the frames the objects are tracked at
FrameTimes ==
    {100, 150, 183, 217, 250, 283, 317, 350, 400, 450, 483, 517, 550, 2000}

\* playback positions 0.25 s before and 0.4 s after the start of the media
\* of the trimmed element
PlacedTimes == {250, 900}

\* timeline elements: at the origin, and starting at 1 s with 0.5 s trimmed
PlacedElements ==
    {[startTime |-> 0, trimStart |-> 0], [startTime |-> 1000, trimStart |-> 500]}

\* media items with a reported fps of 24 or 30, or none, on either video
AnyMediaItems ==
    MediaItems \cup {[fps |-> 30, videoId |-> "v1"],
                     [fps |-> NoFps, videoId |-> "v2"]}

\* the positions and media items the overlay is rendered at
OverlayTimes == FrameTimes \ {2000}

OverlayMediaItems == MediaItems \cup {[fps |-> NoFps, videoId |-> "v2"]}

\* an object tracked on two consecutive frames
DenseObject ==
    [SegmentedObject("o2", "v1", "segmenting")
        EXCEPT !.frames = <<6, 7>>, !.boundingBoxes = BoxesOf(<<6, 7>>)]

\* the objects of one video
OneVideoInputs ==
    {SegmentedObject(id, "v1", s) : id \in ObjectIds, s \in InsertStatuses}

\* an object whose name is not its id
NamedObject ==
    [SegmentedObject("o2", "v2", "segmenting")
        EXCEPT !.name = "person", !.confidence = 75]

NamedObjectInputs == ObjectInputs \cup {NamedObject}

TrackedObjectInputs == ObjectInputs \cup {DenseObject}

-----------------------------------------------------------------------------
(* Initial state *)

InitialTimelines ==
    {<<>>,
     <<Track(1, "media")>>,
     <<Track(1, "media"), Track(2, "object"), Track(3, "object")>>}

InitWith(timelines) ==
    /\ selectedObjects = InitialStore.selectedObjects
    /\ isSelectionMode = InitialStore.isSelectionMode
    /\ isProcessingSelection = InitialStore.isProcessingSelection
    /\ pendingClick = InitialStore.pendingClick
    /\ segmentedObjects = InitialStore.segmentedObjects
    /\ objectsByVideo = InitialStore.objectsByVideo
    /\ tracks \in timelines
    /\ timelineFault = "none"
    /\ request = "none"
    /\ recovery = "none"
    /\ inserts = 0
    /\ updateCalls = 0
    /\ intermediate = <<>>
    /\ op = [name |-> "init"]

Init == InitWith(InitialTimelines)

\* a timeline holding one media track and no object track yet
InitObjectTimeline ==
    InitWith({<<Track(1, "media"), Track(2, "object"), Track(3, "object")>>})

InitOneTimeline == InitWith({<<Track(1, "media")>>})

\* set(): the store after a handler has run
Commit(st) ==
    /\ selectedObjects' = st.selectedObjects
    /\ isSelectionMode' = st.isSelectionMode
    /\ isProcessingSelection' = st.isProcessingSelection
    /\ pendingClick' = st.pendingClick
    /\ segmentedObjects' = st.segmentedObjects
    /\ objectsByVideo' = st.objectsByVideo

\* the bound that stops an insert
CanInsert == inserts < MaxInserts

\* the bound that stops an update
CanUpdate == updateCalls < MaxUpdates

-----------------------------------------------------------------------------
(* Actions: one per handler or store operation *)

HandleVideoClickWith(times, elements, mediaItems) ==
    \E e \in ClickEvents, t \in times, el \in elements, m \in mediaItems :
        LET st == handleVideoClick(Store, e, t, el, m)
        IN /\ Commit(st)
           /\ op' = [name |-> "handleVideoClick",
                     click |-> clickCoordinate(e, t, el, m),
                     currentTime |-> t, element |-> el, mediaItem |-> m,
                     accepted |-> st # Store,
                     videoId |-> m.videoId,
                     recovered |-> recovery = "on"]
           /\ recovery' = IF st = Store THEN recovery ELSE "none"
           /\ intermediate' = <<>>
           /\ UNCHANGED <<tracks, timelineFault, request, inserts, updateCalls>>

SetSelectionMode ==
    \E enabled \in BOOLEAN :
        /\ Commit(setSelectionMode(Store, enabled))
        /\ intermediate' = Before(setSelectionModeSets(Store, enabled))
        /\ op' = [name |-> "setSelectionMode", enabled |-> enabled,
                  hadPending |-> pendingClick # null,
                  hadSelection |-> selectedObjects # <<>>,
                  wasProcessing |-> isProcessingSelection]
        /\ recovery' =
               IF enabled
               THEN (IF recovery \in {"off", "on"} THEN "on" ELSE recovery)
               ELSE (IF recovery \in {"failed", "off", "on"} THEN "off" ELSE recovery)
        /\ UNCHANGED <<tracks, timelineFault, request, inserts, updateCalls>>

HandleVideoClick ==
    HandleVideoClickWith(PlaybackTimes, VideoElements, MediaItems)

\* a click at any of the playback positions, elements and media items
HandleVideoClickAnywhere ==
    HandleVideoClickWith(FrameTimes, PlacedElements, AnyMediaItems)

\* a click on either element, before or after its first shown frame
HandleVideoClickPlaced ==
    HandleVideoClickWith(PlacedTimes, PlacedElements, MediaItems)

\* one render of a video element of the preview panel
RenderElementWith(times, elements, mediaItems) ==
    \E t \in times, el \in elements, m \in mediaItems :
        /\ op' = [name |-> "renderElement",
                  currentTime |-> t, element |-> el, mediaItem |-> m,
                  queryFrame |-> queryFrame(t, el, m),
                  overlays |-> renderElement(Store, t, el, m)]
        /\ UNCHANGED <<storeVars, tracks, timelineFault, request, recovery,
                       inserts, updateCalls, intermediate>>

RenderElement ==
    RenderElementWith(OverlayTimes, VideoElements, OverlayMediaItems)

\* a render at the positions a click can be made at
RenderElementPlaced ==
    RenderElementWith(PlacedTimes, PlacedElements, MediaItems)

AddClickCoordinateWith(times, elements, mediaItems) ==
    \E e \in ClickEvents, t \in times, el \in elements, m \in mediaItems :
        /\ m.videoId # NoVideoId
        /\ Commit(addClickCoordinate(Store, clickCoordinate(e, t, el, m), m.videoId))
        /\ intermediate' = <<>>
        /\ op' = [name |-> "addClickCoordinate",
                  click |-> clickCoordinate(e, t, el, m)]
        /\ recovery' = "none"
        /\ UNCHANGED <<tracks, timelineFault, request, inserts, updateCalls>>

AddClickCoordinate ==
    AddClickCoordinateWith(PlaybackTimes, VideoElements, MediaItems)

\* the click of either element, before or after its first shown frame
AddClickCoordinatePlaced ==
    AddClickCoordinateWith(PlacedTimes, PlacedElements, MediaItems)

ClearPendingClick ==
    /\ Commit(clearPendingClick(Store))
    /\ intermediate' = <<>>
    /\ op' = [name |-> "clearPendingClick"]
    /\ recovery' = "none"
    /\ UNCHANGED <<tracks, timelineFault, request, inserts, updateCalls>>

SetProcessingSelection ==
    \E processing \in BOOLEAN :
        /\ Commit(setProcessingSelection(Store, processing))
        /\ intermediate' = <<>>
        /\ op' = [name |-> "setProcessingSelection", processing |-> processing]
        /\ recovery' = "none"
        /\ UNCHANGED <<tracks, timelineFault, request, inserts, updateCalls>>

AddSegmentedObjectFrom(objects) ==
    \E object \in objects :
        /\ CanInsert
        /\ LET r == addSegmentedObject(Store, tracks, object, timelineFault)
           IN /\ Commit(r.store)
              /\ intermediate' = <<>>
              /\ tracks' = r.tracks
        /\ inserts' = inserts + 1
        /\ op' = [name |-> "addSegmentedObject", objectId |-> object.id,
                  object |-> object,
                  fail |-> timelineFault,
                  hadTrack |-> findObjectTrack(tracks) # 0]
        /\ UNCHANGED <<timelineFault, request, recovery, updateCalls>>

AddSegmentedObject == AddSegmentedObjectFrom(ObjectInputs)

UpdateSegmentedObjectWith(updateInputs) ==
    \E objectId \in ObjectIds, updates \in updateInputs :
        /\ CanUpdate
        /\ Commit(updateSegmentedObject(Store, objectId, updates))
        /\ intermediate' = Before(updateSegmentedObjectSets(Store, objectId, updates))
        /\ updateCalls' = updateCalls + 1
        /\ op' = [name |-> "updateSegmentedObject", objectId |-> objectId,
                  updates |-> updates]
        /\ UNCHANGED <<tracks, timelineFault, request, recovery, inserts>>

UpdateSegmentedObject == UpdateSegmentedObjectWith(UpdateInputs)

\* an update that leaves id and videoId alone
UpdateStatus == UpdateSegmentedObjectWith(StatusUpdates)

\* an insert of an id that is not registered: never inserted, or removed since
AddUnregisteredObject ==
    AddSegmentedObjectFrom({object \in ObjectInputs :
                               ~MapHas(segmentedObjects, object.id)})

\* mutant: the removal also takes the object's elements off the timeline
RemoveSegmentedObject_Unbinds ==
    \E objectId \in ObjectIds :
        /\ Commit(Final(Store, removeSegmentedObjectSets(Store, objectId)))
        /\ intermediate' = Before(removeSegmentedObjectSets(Store, objectId))
        /\ op' = [name |-> "removeSegmentedObject", objectId |-> objectId,
                  registered |-> MapHas(segmentedObjects, objectId),
                  selected |-> Some(selectedObjects,
                                    LAMBDA obj : obj.id = objectId)]
        /\ tracks' = [i \in 1..Len(tracks) |->
                         [tracks[i] EXCEPT !.elements =
                             Filter(tracks[i].elements,
                                    LAMBDA el : el.objectId # objectId)]]
        /\ UNCHANGED <<timelineFault, request, recovery, inserts, updateCalls>>

RemoveSegmentedObject ==
    \E objectId \in ObjectIds :
        /\ Commit(Final(Store, removeSegmentedObjectSets(Store, objectId)))
        /\ intermediate' = Before(removeSegmentedObjectSets(Store, objectId))
        /\ op' = [name |-> "removeSegmentedObject", objectId |-> objectId,
                  registered |-> MapHas(segmentedObjects, objectId),
                  selected |-> Some(selectedObjects,
                                    LAMBDA obj : obj.id = objectId)]
        /\ UNCHANGED <<tracks, timelineFault, request, recovery, inserts, updateCalls>>

SelectObject ==
    \E objectId \in ObjectIds :
        /\ Len(selectedObjects) < MaxSelected
        /\ Commit(selectObject(Store, objectId))
        /\ intermediate' = <<>>
        /\ op' = [name |-> "selectObject", objectId |-> objectId]
        /\ UNCHANGED <<tracks, timelineFault, request, recovery, inserts, updateCalls>>

DeselectObject ==
    \E objectId \in ObjectIds :
        /\ Commit(deselectObject(Store, objectId))
        /\ intermediate' = <<>>
        /\ op' = [name |-> "deselectObject", objectId |-> objectId,
                  selected |-> Some(selectedObjects,
                                    LAMBDA obj : obj.id = objectId)]
        /\ UNCHANGED <<tracks, timelineFault, request, recovery, inserts, updateCalls>>

ClearSelection ==
    /\ Commit(clearSelection(Store))
    /\ intermediate' = <<>>
    /\ op' = [name |-> "clearSelection"]
    /\ UNCHANGED <<tracks, timelineFault, request, recovery, inserts, updateCalls>>

-----------------------------------------------------------------------------
(* The segmentation collaborator: dispatch of the pending click and the two *)
(* ways its request ends                                                    *)

\* PendingClick -> Processing: the pending click is sent to the service
dispatchSegmentation(st) == st

\* Processing -> ModeActive: the object is registered, the pending state clears
segmentationResolved(st, tr, object, fail) ==
    LET r == addSegmentedObject(st, tr, object, fail)
    IN [store |-> setProcessingSelection(clearPendingClick(r.store), FALSE),
        tracks |-> r.tracks]

\* the states the result handler's store calls publish
segmentationResolvedSets(st, object) ==
    LET s1 == registerObject(st, object)
        s2 == clearPendingClick(s1)
    IN <<s1, s2, setProcessingSelection(s2, FALSE)>>

\* Processing -> Error: the pending state clears, nothing is registered
segmentationFailed(st) == setProcessingSelection(clearPendingClick(st), FALSE)

\* the states the failure handler's store calls publish
segmentationFailedSets(st) ==
    LET s1 == clearPendingClick(st)
    IN <<s1, setProcessingSelection(s1, FALSE)>>

DispatchSegmentation ==
    /\ pendingClick # null
    /\ request = "none"
    /\ Commit(dispatchSegmentation(Store))
    /\ intermediate' = <<>>
    /\ request' = "inflight"
    /\ op' = [name |-> "dispatchSegmentation"]
    /\ recovery' = "none"
    /\ UNCHANGED <<tracks, timelineFault, inserts, updateCalls>>

SegmentationResolved ==
    \E object \in ObjectInputs :
        /\ request = "inflight"
        /\ CanInsert
        /\ LET r == segmentationResolved(Store, tracks, object, timelineFault)
           IN /\ Commit(r.store)
              /\ intermediate' = Before(segmentationResolvedSets(Store, object))
              /\ tracks' = r.tracks
        /\ inserts' = inserts + 1
        /\ request' = "none"
        /\ op' = [name |-> "segmentationResolved", objectId |-> object.id,
                  modeOff |-> ~isSelectionMode,
                  hadPending |-> pendingClick # null]
        /\ recovery' = "none"
        /\ UNCHANGED <<timelineFault, updateCalls>>

SegmentationFailed ==
    /\ request = "inflight"
    /\ Commit(segmentationFailed(Store))
    /\ intermediate' = Before(segmentationFailedSets(Store))
    /\ request' = "none"
    /\ op' = [name |-> "segmentationFailed"]
    /\ recovery' = "failed"
    /\ UNCHANGED <<tracks, timelineFault, inserts, updateCalls>>

\* the timeline store starts or stops throwing from one of its calls
TimelineFault ==
    \E fail \in TimelineFailures :
        /\ timelineFault' = fail
        /\ UNCHANGED <<storeVars, tracks, request, recovery, inserts, updateCalls,
                       intermediate, op>>

-----------------------------------------------------------------------------
(* Specifications *)

Next ==
    \/ HandleVideoClick
    \/ SetSelectionMode
    \/ AddClickCoordinate
    \/ ClearPendingClick
    \/ SetProcessingSelection
    \/ AddSegmentedObject
    \/ UpdateSegmentedObject
    \/ RemoveSegmentedObject
    \/ SelectObject
    \/ DeselectObject
    \/ ClearSelection
    \/ DispatchSegmentation
    \/ SegmentationResolved
    \/ SegmentationFailed
    \/ TimelineFault
    \/ RenderElement

Spec == Init /\ [][Next]_vars

\* the registry and the timeline binding, driven through the store's own calls
NextRegistry ==
    \/ AddSegmentedObject
    \/ UpdateSegmentedObject
    \/ RemoveSegmentedObject
    \/ SelectObject
    \/ DeselectObject
    \/ ClearSelection

SpecRegistry == InitOneTimeline /\ [][NextRegistry]_vars

\* the selection session as the panel wires it: clicks, the mode toggle, the
\* selection of registered objects and the segmentation request
NextSession ==
    \/ HandleVideoClick
    \/ SetSelectionMode
    \/ SelectObject
    \/ DispatchSegmentation
    \/ SegmentationResolved
    \/ SegmentationFailed

SpecSession == InitOneTimeline /\ [][NextSession]_vars

\* the timeline binding: every initial timeline, with and without faults
NextBinding ==
    \/ AddSegmentedObject
    \/ RemoveSegmentedObject
    \/ SelectObject
    \/ TimelineFault

SpecBinding == Init /\ [][NextBinding]_vars

\* the registry and the selection toggle over a timeline that has object
\* tracks, so that every insert binds an element
NextTimeline ==
    \/ AddSegmentedObjectFrom(OneVideoInputs)
    \/ UpdateSegmentedObject
    \/ RemoveSegmentedObject
    \/ SelectObject
    \/ DeselectObject
    \/ ClearSelection
    \/ SetSelectionMode

SpecTimeline == InitObjectTimeline /\ [][NextTimeline]_vars

\* the elements of the binding: objects with and without a name of their own
\* on every initial timeline, with and without faults
NextElement ==
    \/ AddSegmentedObjectFrom(NamedObjectInputs)
    \/ RemoveSegmentedObject
    \/ TimelineFault

SpecElement == Init /\ [][NextElement]_vars

\* the registry as its callers are expected to use it: no id is inserted
\* while it is registered, and no update rewrites id or videoId
NextOrderly ==
    \/ AddUnregisteredObject
    \/ UpdateStatus
    \/ RemoveSegmentedObject
    \/ SelectObject
    \/ DeselectObject

SpecOrderly == InitOneTimeline /\ [][NextOrderly]_vars

\* the session fields under direct calls of the store, in any order
NextStoreCalls ==
    \/ AddClickCoordinatePlaced
    \/ ClearPendingClick
    \/ SetProcessingSelection
    \/ SetSelectionMode

SpecStoreCalls == InitOneTimeline /\ [][NextStoreCalls]_vars

\* the overlay: objects are registered, selected and removed, the panel is
\* clicked and rendered
NextOverlay ==
    \/ AddSegmentedObjectFrom(TrackedObjectInputs)
    \/ RemoveSegmentedObject
    \/ SelectObject
    \/ RenderElement

SpecOverlay == InitOneTimeline /\ [][NextOverlay]_vars

\* the preview panel: the panel is clicked and rendered at the same playback
\* positions while objects are registered
NextPreview ==
    \/ SetSelectionMode
    \/ HandleVideoClickPlaced
    \/ SetProcessingSelection
    \/ AddSegmentedObjectFrom(TrackedObjectInputs)
    \/ RenderElementPlaced

SpecPreview == InitOneTimeline /\ [][NextPreview]_vars

\* the click mapper: clicks at every playback position, element and media item
NextClick ==
    \/ SetSelectionMode
    \/ HandleVideoClickAnywhere
    \/ SetProcessingSelection

SpecClick == InitOneTimeline /\ [][NextClick]_vars

-----------------------------------------------------------------------------
(* Properties of the selection session *)

IsClick(o) == o.name = "handleVideoClick"

IsSemanticClick(o) == IsClick(o) /\ o.videoId # NoVideoId

IsDisable(o) == o.name = "setSelectionMode" /\ ~o.enabled

IsResolved(o) == o.name = "segmentationResolved"

\* the id is a key of the primary map and is listed in some video bucket
Registered(id) ==
    /\ MapHas(segmentedObjects, id)
    /\ \E v \in DOMAIN objectsByVideo :
           Some(objectsByVideo[v], LAMBDA x : x = id)

\* C1: a click on a semantic video that arrives while isProcessingSelection is
\* true is dropped: pendingClick keeps the earlier click, isProcessingSelection
\* stays true, and nothing else in the store or the request changes.
C1_ClickWhileProcessingDropped ==
    [][(IsSemanticClick(op') /\ isProcessingSelection)
          => (/\ pendingClick' = pendingClick
              /\ isProcessingSelection'
              /\ UNCHANGED <<storeVars, request>>)]_vars

\* C1 witness: a second, different click was dropped while the first is pending
C1_Witness ==
    /\ IsSemanticClick(op)
    /\ isSelectionMode
    /\ isProcessingSelection
    /\ pendingClick # null
    /\ pendingClick # op.click

C7_DisableClears ==
    IsDisable(op) => (pendingClick = null /\ selectedObjects = <<>>)

\* C7 witness: the mode was switched off with a click pending and a selection
C7_Witness ==
    /\ IsDisable(op)
    /\ op.hadPending
    /\ op.hadSelection
    /\ op.wasProcessing

\* C8: setSelectionMode(false) does not abort a request: isProcessingSelection,
\* both registry indices and the request are unchanged, and a result that
\* resolves later is registered whether or not selection mode is on.
C8_DisableDoesNotAbort ==
    /\ [][IsDisable(op')
             => UNCHANGED <<isProcessingSelection, segmentedObjects,
                            objectsByVideo, request>>]_vars
    /\ [](IsResolved(op) => Registered(op.objectId))

\* C8 witness: a result resolved and was registered with selection mode off
C8_Witness ==
    /\ IsResolved(op)
    /\ op.modeOff
    /\ ~isSelectionMode
    /\ Registered(op.objectId)

\* C9: a click that arrives while selection mode is off changes nothing:
\* the store, the request and the failure history are as before.
C9_ClickWhileModeOffRejected ==
    [][(IsClick(op') /\ ~isSelectionMode)
          => UNCHANGED <<storeVars, tracks, request, recovery>>]_vars

\* C9 witness: a click on a semantic video arrived with selection mode off
C9_Witness ==
    /\ IsSemanticClick(op)
    /\ ~isSelectionMode
    /\ ~isProcessingSelection
    /\ pendingClick = null

-----------------------------------------------------------------------------
(* Properties of the registry and of the timeline binding *)

IsAdd(o) == o.name = "addSegmentedObject"

IsRemove(o) == o.name = "removeSegmentedObject"

\* getObjectsByVideo returns no object with this id, for any video
NotReturned(id) ==
    \A v \in VideoIds :
        ~Some(getObjectsByVideo(Store, v), LAMBDA obj : obj.id = id)

\* selectedObjects holds no entry with this id
NotSelected(id) == ~Some(selectedObjects, LAMBDA obj : obj.id = id)

\* some track of kind "object" holds an element carrying this objectId
BoundInTimeline(id) ==
    \E i \in 1..Len(tracks) :
        /\ tracks[i].type = "object"
        /\ Some(tracks[i].elements, LAMBDA el : el.objectId = id)

\* C4: every id listed in an objectsByVideo bucket is a key of the primary map.
C4_NoDanglingBucketIds ==
    \A v \in DOMAIN objectsByVideo :
        \A i \in 1..Len(objectsByVideo[v]) :
            MapHas(segmentedObjects, objectsByVideo[v][i])

\* C5: every entry of selectedObjects equals the primary-map entry stored
\* under the same id.
C5_SelectionNeverStale ==
    \A i \in 1..Len(selectedObjects) :
        /\ MapHas(segmentedObjects, selectedObjects[i].id)
        /\ segmentedObjects[selectedObjects[i].id] = selectedObjects[i]

\* C6: after addSegmentedObject whose timeline calls do not throw, an object
\* track holds an element carrying the object's id, whether the track existed
\* before the call or was created by it.
C6_BindInsertsElement ==
    (IsAdd(op) /\ op.fail = "none") => BoundInTimeline(op.objectId)

\* C10: after removeSegmentedObject(id) on a registered id, getObjectsByVideo
\* returns no object with that id for any video and selectedObjects holds no
\* entry with that id.
C10_RemovedIdGone ==
    (IsRemove(op) /\ op.registered)
        => (NotReturned(op.objectId) /\ NotSelected(op.objectId))

-----------------------------------------------------------------------------
(* Properties of the registry operations: atomicity, frame and algebra *)

IsUpdate(o) == o.name = "updateSegmentedObject"

IsSelect(o) == o.name = "selectObject"

IsDeselect(o) == o.name = "deselectObject"

\* how many entries of a sequence pass the test
Count(s, test(_)) == Cardinality({i \in 1..Len(s) : test(s[i])})

\* the part of a published state the registry operations write
RegistryOf(st) == <<st.selectedObjects, st.segmentedObjects, st.objectsByVideo>>

\* in the state st the id is a key of the primary map, is listed in the bucket
\* of video v, is the id of a selected entry
InPrimary(st, id) == MapHas(st.segmentedObjects, id)

InBucket(st, id, v) == Some(GetOrEmpty(st.objectsByVideo, v), LAMBDA x : x = id)

InSelection(st, id) == Some(st.selectedObjects, LAMBDA obj : obj.id = id)

\* every state a subscriber is shown by the step: the intermediate ones and
\* the one the handler leaves
ShownBy(inter, final) == inter \o <<final>>

\* C11: removeSegmentedObject(id) on a registered id is one atomic step: every
\* state it shows to a subscriber of the store either still has the registry as it
\* was before the call, or has the id gone from the primary map, from the
\* bucket of the object's video and from selectedObjects all at once; the
\* state it leaves is of the second kind.
C11_RemoveAtomic ==
    [][(IsRemove(op') /\ InPrimary(Store, op'.objectId))
          => LET id == op'.objectId
                 v == segmentedObjects[id].videoId
                 before == Store
                 shown == ShownBy(intermediate', Store')
             IN /\ \A i \in 1..Len(shown) :
                       \/ RegistryOf(shown[i]) = RegistryOf(before)
                       \/ (/\ ~InPrimary(shown[i], id)
                           /\ ~InBucket(shown[i], id, v)
                           /\ ~InSelection(shown[i], id))
                /\ ~InPrimary(shown[Len(shown)], id)
                /\ ~InBucket(shown[Len(shown)], id, v)
                /\ ~InSelection(shown[Len(shown)], id)]_vars

\* C11 witness: a registered, selected object was removed while another object
\* stays registered and selected
C11_Witness ==
    /\ IsRemove(op)
    /\ op.registered
    /\ op.selected
    /\ intermediate = <<>>
    /\ segmentedObjects # EmptyMap
    /\ selectedObjects # <<>>
    /\ NotSelected(op.objectId)

\* C12: updateSegmentedObject is atomic with respect to the primary map and the
\* selection: no state shown to a subscriber has segmentedObjects already
\* holding the merged object while selectedObjects is still the pre-update
\* sequence that the call goes on to replace.
C12_UpdateAtomic ==
    [][IsUpdate(op')
          => \A i \in 1..Len(intermediate') :
                 ~(/\ intermediate'[i].segmentedObjects = segmentedObjects'
                   /\ segmentedObjects' # segmentedObjects
                   /\ intermediate'[i].selectedObjects = selectedObjects
                   /\ selectedObjects' # selectedObjects)]_vars

\* C13: when updateSegmentedObject(id, updates) returns for a registered id
\* that is selected, selectedObjects is as long as before, every entry that
\* carried the id equals the merged object now stored in the primary map (no
\* stale copy), at the position it had, and the other entries are unchanged.
C13_UpdateVisibleInSelection ==
    [][(IsUpdate(op') /\ InPrimary(Store, op'.objectId)
                      /\ InSelection(Store, op'.objectId))
          => LET id == op'.objectId
                 merged == segmentedObjects'[id]
             IN /\ Len(selectedObjects') = Len(selectedObjects)
                /\ \A j \in 1..Len(selectedObjects) :
                       IF selectedObjects[j].id = id
                       THEN selectedObjects'[j] = merged
                       ELSE selectedObjects'[j] = selectedObjects[j]]_vars

\* C14: updateSegmentedObject(id, updates) on a registered id is a shallow
\* merge: the stored object has the same fields, each field named in updates
\* has the new value and each other field its previous value; no other primary
\* entry and no bucket changes; selectedObjects keeps its length, its entries
\* with another id are unchanged and an entry with the id is either unchanged
\* or the merged object.
C14_UpdateShallowMerge ==
    [][(IsUpdate(op') /\ InPrimary(Store, op'.objectId))
          => LET id == op'.objectId
                 updates == op'.updates
                 old == segmentedObjects[id]
                 new == segmentedObjects'[id]
             IN /\ DOMAIN new = DOMAIN old
                /\ \A f \in DOMAIN old :
                       new[f] = IF f \in DOMAIN updates THEN updates[f] ELSE old[f]
                /\ DOMAIN segmentedObjects' = DOMAIN segmentedObjects
                /\ \A k \in DOMAIN segmentedObjects \ {id} :
                       segmentedObjects'[k] = segmentedObjects[k]
                /\ objectsByVideo' = objectsByVideo
                /\ Len(selectedObjects') = Len(selectedObjects)
                /\ \A j \in 1..Len(selectedObjects) :
                       IF selectedObjects[j].id = id
                       THEN selectedObjects'[j] \in {selectedObjects[j], new}
                       ELSE selectedObjects'[j] = selectedObjects[j]]_vars

\* C14 witness: the status of one of two registered, selected objects was
\* updated to ready while its videoId and frames stayed as inserted
C14_Witness ==
    /\ IsUpdate(op)
    /\ op.updates = [status |-> "ready"]
    /\ InPrimary(Store, op.objectId)
    /\ segmentedObjects[op.objectId].status = "ready"
    /\ segmentedObjects[op.objectId].frames = FramesOf(op.objectId)
    /\ Cardinality(DOMAIN segmentedObjects) = 2
    /\ Len(selectedObjects) = 2

\* C15: updateSegmentedObject, removeSegmentedObject and selectObject called
\* with an id that is not registered, and deselectObject called with an id
\* that is not selected, leave the primary map, every bucket and
\* selectedObjects unchanged.
C15_AbsentIdNoOp ==
    [][(\/ (IsUpdate(op') /\ ~InPrimary(Store, op'.objectId))
        \/ (IsRemove(op') /\ ~InPrimary(Store, op'.objectId))
        \/ (IsSelect(op') /\ ~InPrimary(Store, op'.objectId))
        \/ (IsDeselect(op') /\ ~InSelection(Store, op'.objectId)))
          => UNCHANGED registryVars]_vars

\* C15 witness: an update named an id that is not registered, with another
\* object registered and selected
C15_Witness ==
    /\ IsUpdate(op)
    /\ ~InPrimary(Store, op.objectId)
    /\ segmentedObjects # EmptyMap
    /\ selectedObjects # <<>>

\* C16: selectedObjects holds no two entries with the same id, and it is no
\* longer than the primary map has objects.
C16_SelectionDistinctAndBounded ==
    /\ \A i, j \in 1..Len(selectedObjects) :
           selectedObjects[i].id = selectedObjects[j].id => i = j
    /\ Len(selectedObjects) <= Cardinality(DOMAIN segmentedObjects)

\* C17: selectObject(id) is idempotent: a second call with the same id right
\* after the first leaves selectedObjects as the first call left it.
C17_SelectIdempotent ==
    [][(IsSelect(op) /\ IsSelect(op') /\ op'.objectId = op.objectId)
          => selectedObjects' = selectedObjects]_vars

Without(objects, id) == SelectSeq(objects, LAMBDA obj : obj.id # id)

\* C19: addSegmentedObject on an id that is already registered overwrites the
\* primary entry and appends the id again to the bucket of the object's video,
\* so that bucket holds the id at least twice and getObjectsByVideo returns
\* the object at least twice for that video.
C19_ReinsertHoldsIdTwice ==
    [][(IsAdd(op') /\ InPrimary(Store, op'.objectId))
          => LET object == op'.object
                 bucket == GetOrEmpty(objectsByVideo', object.videoId)
                 returned == getObjectsByVideo(Store', object.videoId)
             IN /\ segmentedObjects'[object.id] = object
                /\ Count(bucket, LAMBDA id : id = object.id) >= 2
                /\ Count(returned, LAMBDA obj : obj = object) >= 2]_vars

\* C19 as amended: addSegmentedObject on an id that is already registered
\* overwrites the primary entry and appends the id to the bucket of the
\* object's videoId, and getObjectsByVideo returns the object for that video
\* as often as the bucket lists its id: at least twice when that bucket
\* already listed the id, once when the id was registered under another
\* videoId only.
C19_ReinsertAppendsToOwnBucket ==
    [][(IsAdd(op') /\ InPrimary(Store, op'.objectId))
          => LET object == op'.object
                 was == GetOrEmpty(objectsByVideo, object.videoId)
                 bucket == GetOrEmpty(objectsByVideo', object.videoId)
                 returned == getObjectsByVideo(Store', object.videoId)
                 listed == Count(bucket, LAMBDA id : id = object.id)
             IN /\ segmentedObjects'[object.id] = object
                /\ bucket = Append(was, object.id)
                /\ Count(returned, LAMBDA obj : obj = object) = listed
                /\ IF InBucket(Store, object.id, object.videoId)
                   THEN listed >= 2
                   ELSE listed = 1]_vars

\* C19 witness: an object was inserted a second time under the same video;
\* the bucket lists its id twice and the query returns it twice
C19_Witness ==
    /\ IsAdd(op)
    /\ Count(GetOrEmpty(objectsByVideo, op.object.videoId),
             LAMBDA id : id = op.objectId) = 2
    /\ Count(getObjectsByVideo(Store, op.object.videoId),
             LAMBDA obj : obj = op.object) = 2

\* C20: getObjectsByVideo(videoId) returns the objects of that video in the
\* order of their insertion, whatever inserts and removals happen around
\* them: an insert puts the object last in the result for its own video and
\* in no other video's result, and leaves the objects of other ids where they
\* were; a removal takes the object out and leaves the others in their
\* order; and every element returned is a registered object, a bucket id
\* without primary entry being skipped.
C20_QueryInInsertionOrder ==
    /\ [][IsAdd(op')
             => \A v \in VideoIds :
                    LET object == op'.object
                        was == getObjectsByVideo(Store, v)
                        now == getObjectsByVideo(Store', v)
                    IN /\ Without(now, object.id) = Without(was, object.id)
                       /\ IF v = object.videoId
                          THEN now # <<>> /\ now[Len(now)] = object
                          ELSE \A i \in 1..Len(now) : now[i] # object]_vars
    /\ [][IsRemove(op')
             => \A v \in VideoIds :
                    getObjectsByVideo(Store', v)
                        = Without(getObjectsByVideo(Store, v), op'.objectId)]_vars
    /\ [](\A v \in VideoIds :
             LET bucket == GetOrEmpty(objectsByVideo, v)
                 returned == getObjectsByVideo(Store, v)
             IN /\ Len(returned)
                      = Count(bucket, LAMBDA id : InPrimary(Store, id))
                /\ \A i \in 1..Len(returned) :
                       \E id \in DOMAIN segmentedObjects :
                           returned[i] = segmentedObjects[id])


-----------------------------------------------------------------------------
(* Properties of the object overlay *)

IsRender(o) == o.name = "renderElement"

\* the frames of the boxes an object stores
StoredFrames(obj) ==
    {obj.boundingBoxes[k].frame : k \in DOMAIN obj.boundingBoxes}

\* C21: the overlay of an object at queryFrame is none when every stored box
\* is two or more frames away from queryFrame, and otherwise a stored box at
\* queryFrame - 1, queryFrame or queryFrame + 1
C21_WindowOfOneFrame ==
    IsRender(op) =>
        \A i \in DOMAIN op.overlays :
            LET o == op.overlays[i]
                q == op.queryFrame
            IN /\ (o.currentFrameBox = null)
                      <=> (StoredFrames(o.obj) \cap {q - 1, q, q + 1} = {})
               /\ o.currentFrameBox # null =>
                      /\ o.currentFrameBox.frame \in {q - 1, q, q + 1}
                      /\ \E k \in DOMAIN o.obj.boundingBoxes :
                             o.obj.boundingBoxes[k] = o.currentFrameBox

\* a render that finds an object's nearest box exactly two frames away and
\* shows nothing, and one that finds a box one frame away and shows it
C21_Witness ==
    /\ IsRender(op)
    /\ \E i \in DOMAIN op.overlays :
           /\ op.overlays[i].currentFrameBox = null
           /\ StoredFrames(op.overlays[i].obj)
                  \cap {op.queryFrame - 2, op.queryFrame + 2} # {}
    /\ \E i \in DOMAIN op.overlays :
           /\ op.overlays[i].currentFrameBox # null
           /\ op.overlays[i].currentFrameBox.frame
                  \in {op.queryFrame - 1, op.queryFrame + 1}

\* C22: when several stored boxes are inside the window the overlay is the
\* first of them in storage order, whether or not a later one is nearer
C22_FirstInStorageOrder ==
    IsRender(op) =>
        \A i \in DOMAIN op.overlays :
            LET o == op.overlays[i]
                q == op.queryFrame
            IN o.currentFrameBox # null =>
                  \E k \in DOMAIN o.obj.boundingBoxes :
                      /\ o.obj.boundingBoxes[k] = o.currentFrameBox
                      /\ \A j \in 1..(k - 1) :
                             Abs(o.obj.boundingBoxes[j].frame - q) >= 2

\* boxes stored at frames 10, 12, 14 and queryFrame 13: the box of frame 12
C22_Witness ==
    /\ IsRender(op)
    /\ op.queryFrame = 13
    /\ \E i \in DOMAIN op.overlays :
           /\ [k \in DOMAIN op.overlays[i].obj.boundingBoxes |->
                  op.overlays[i].obj.boundingBoxes[k].frame] = <<10, 12, 14>>
           /\ op.overlays[i].currentFrameBox # null
           /\ op.overlays[i].currentFrameBox.frame = 12

\* C23: a render changes nothing of the session, the registry, the selection
\* or the timeline, and every box it shows is an entry of the boundingBoxes of
\* an object the registry returns for the video, as stored
C23_RenderIsPureRead ==
    [][IsRender(op') =>
          /\ UNCHANGED <<storeVars, tracks>>
          /\ \A i \in DOMAIN op'.overlays :
                 op'.overlays[i].currentFrameBox # null =>
                     \E k \in DOMAIN getObjectsByVideo(Store, op'.mediaItem.videoId) :
                         LET stored == getObjectsByVideo(Store, op'.mediaItem.videoId)[k]
                         IN /\ stored.id = op'.overlays[i].obj.id
                            /\ \E b \in DOMAIN stored.boundingBoxes :
                                   stored.boundingBoxes[b]
                                       = op'.overlays[i].currentFrameBox]_vars

\* a render that shows a box stored one frame away from the queried frame
C23_Witness ==
    /\ IsRender(op)
    /\ \E i \in DOMAIN op.overlays :
           /\ op.overlays[i].currentFrameBox # null
           /\ op.overlays[i].currentFrameBox.frame # op.queryFrame

-----------------------------------------------------------------------------
(* Properties of the frame mapping *)

\* the render directly follows an accepted click of the same playback time,
\* element and media item
RenderAtClick ==
    /\ IsClick(op) /\ op.accepted
    /\ IsRender(op')
    /\ op'.currentTime = op.currentTime
    /\ op'.element = op.element
    /\ op'.mediaItem = op.mediaItem

\* the box the object stores at the frame
BoxAt(obj, frame) ==
    obj.boundingBoxes[CHOOSE k \in DOMAIN obj.boundingBoxes :
                          obj.boundingBoxes[k].frame = frame]

\* C24 as stated: a render at the inputs of a click resolves the overlays at
\* the frame the click recorded, and shows, of every object that stores a box
\* at that frame, that box
C24_BoxOfClickFrameShown ==
    [][RenderAtClick =>
          /\ op'.queryFrame = pendingClick.frame
          /\ \A i \in DOMAIN op'.overlays :
                 pendingClick.frame \in StoredFrames(op'.overlays[i].obj) =>
                     op'.overlays[i].currentFrameBox
                         = BoxAt(op'.overlays[i].obj, pendingClick.frame)]_vars

\* C24 amended: a render at the inputs of a click resolves the overlays at the
\* frame the click recorded, and shows, of every object that stores a box at
\* that frame, either that box or a box stored before it one frame away
C24_ObjectOfClickFrameShown ==
    [][RenderAtClick =>
          /\ op'.queryFrame = pendingClick.frame
          /\ \A i \in DOMAIN op'.overlays :
                 LET o == op'.overlays[i]
                     f == pendingClick.frame
                 IN f \in StoredFrames(o.obj) =>
                       /\ o.currentFrameBox # null
                       /\ \/ o.currentFrameBox = BoxAt(o.obj, f)
                          \/ \E j, k \in DOMAIN o.obj.boundingBoxes :
                                 /\ j < k
                                 /\ o.obj.boundingBoxes[k] = BoxAt(o.obj, f)
                                 /\ o.obj.boundingBoxes[j] = o.currentFrameBox
                                 /\ o.currentFrameBox.frame
                                        \in {f - 1, f + 1}]_vars

\* a render of the trimmed element at the frame of the pending click that
\* shows the box stored at that frame
C24_Witness ==
    /\ IsRender(op)
    /\ op.element.trimStart # 0
    /\ pendingClick # null
    /\ op.queryFrame = pendingClick.frame
    /\ \E i \in DOMAIN op.overlays :
           /\ op.overlays[i].currentFrameBox # null
           /\ op.overlays[i].currentFrameBox.frame = pendingClick.frame

\* the media time of a click or a render, in ms
MediaTime(o) == o.currentTime - o.element.startTime + o.element.trimStart

\* frame is the greatest whole number not above ms * fps / 1000
IsFloorOf(frame, ms, fps) ==
    /\ frame * 1000 <= ms * fps
    /\ ms * fps < (frame + 1) * 1000

\* C25: the frame of a click with fps > 0 is the floor of
\* (playbackTime - elementStart + elementTrimStart) * fps, the one value its
\* inputs allow, and is not negative when playbackTime >= elementStart -
\* elementTrimStart; an accepted click records that frame
C25_ClickFrameIsFloor ==
    (IsClick(op) /\ op.mediaItem.fps > 0) =>
        /\ IsFloorOf(op.click.frame, MediaTime(op), op.mediaItem.fps)
        /\ \A f \in (op.click.frame - 2)..(op.click.frame + 2) :
               IsFloorOf(f, MediaTime(op), op.mediaItem.fps) => f = op.click.frame
        /\ op.currentTime >= op.element.startTime - op.element.trimStart =>
               op.click.frame >= 0
        /\ op.accepted => pendingClick.frame = op.click.frame

\* playbackTime 2.0 s, elementStart 0, trimStart 0, fps 30: frame 60
C25_Witness ==
    /\ IsClick(op) /\ op.accepted
    /\ op.currentTime = 2000
    /\ op.element = [startTime |-> 0, trimStart |-> 0]
    /\ op.mediaItem.fps = 30
    /\ pendingClick.frame = 60

\* C26: with a media item that reports no fps, the frame of a click and the
\* queryFrame of a render are the floor of the media time times 30, and the
\* click is accepted as any other: when selection mode is on, no selection
\* is being processed and the media item has a videoId
C26_DefaultFpsIsThirty ==
    [][/\ (IsClick(op') /\ op'.mediaItem.fps = NoFps) =>
             /\ IsFloorOf(op'.click.frame, MediaTime(op'), 30)
             /\ op'.accepted
                    <=> /\ isSelectionMode
                        /\ ~isProcessingSelection
                        /\ op'.mediaItem.videoId # NoVideoId
             /\ op'.accepted => pendingClick' = op'.click
       /\ (IsRender(op') /\ op'.mediaItem.fps = NoFps) =>
             IsFloorOf(op'.queryFrame, MediaTime(op'), 30)]_vars

\* a render without fps at the frame an accepted click without fps recorded,
\* which is not the frame the same media time has at 24 fps
C26_Witness ==
    /\ IsRender(op)
    /\ op.mediaItem.fps = NoFps
    /\ pendingClick # null
    /\ op.queryFrame = pendingClick.frame
    /\ pendingClick.timestamp = op.currentTime
    /\ ~IsFloorOf(op.queryFrame, MediaTime(op), 24)

-----------------------------------------------------------------------------
(* Properties of the timeline binding *)

\* the two rationals are the same number
RatEq(a, b) == a.num * b.den = b.num * a.den

\* the positions <<track, element>> of the elements carrying the objectId
ElementPositions(id) ==
    {p \in UNION {{<<i, k>> : k \in DOMAIN tracks[i].elements} :
                     i \in DOMAIN tracks} :
        tracks[p[1]].elements[p[2]].objectId = id}

\* the element meets C27 for the object: startTime = min(frames) / fps, and
\* duration = (max(frames) - min(frames) + 1) / fps or 0.1, whichever is more
TimedAs(el, object) ==
    LET lo == SeqMin(object.frames)
        hi == SeqMax(object.frames)
        span == Ratio(hi - lo + 1, BindingFps)
        tenth == Ratio(1, 10)
    IN /\ RatEq(el.startTime, Ratio(lo, BindingFps))
       /\ RatEq(el.duration, IF RatLess(span, tenth) THEN tenth ELSE span)
       /\ ~RatLess(el.duration, tenth)
       /\ hi = lo => RatEq(el.duration, tenth)

\* C27: every element an insert puts on the timeline starts at
\* min(frames) / fps and lasts max((max(frames) - min(frames) + 1) / fps, 0.1)
\* seconds: never less than 0.1 s, and exactly 0.1 s for an object of one frame
C27_ElementTiming ==
    [][IsAdd(op') =>
          /\ Len(op'.object.frames) >= 1
          /\ \A i \in DOMAIN tracks' :
                 \A k \in DOMAIN tracks'[i].elements :
                     (i \in DOMAIN tracks => k > Len(tracks[i].elements)) =>
                         /\ tracks'[i].elements[k].objectId = op'.objectId
                         /\ TimedAs(tracks'[i].elements[k], op'.object)]_vars

\* an insert of an object of one frame has put an element of 0.1 s on the
\* timeline
C27_Witness ==
    /\ IsAdd(op)
    /\ Len(op.object.frames) = 1
    /\ \E p \in ElementPositions(op.objectId) :
           /\ tracks[p[1]].elements[p[2]].duration = Ratio(1, 10)
           /\ RatEq(tracks[p[1]].elements[p[2]].startTime,
                    Ratio(op.object.frames[1], 30))

\* the timeline step of the insert threw
TimelineStepFailed(o) ==
    \/ ~o.hadTrack /\ o.fail = "addTrack"
    \/ o.hadTrack /\ o.fail = "addElementToTrack"

\* C28: after an insert whose timeline step failed the object is in the
\* primary map and in the bucket of its video, getObjectsByVideo returns it,
\* and selectObject leaves its id selected: with the object itself as the
\* entry when the id was not selected before the call
C28_FailureKeepsRegistration ==
    (IsAdd(op) /\ TimelineStepFailed(op)) =>
        /\ MapHas(segmentedObjects, op.objectId)
        /\ segmentedObjects[op.objectId] = op.object
        /\ Some(GetOrEmpty(objectsByVideo, op.object.videoId),
                LAMBDA id : id = op.objectId)
        /\ Some(getObjectsByVideo(Store, op.object.videoId),
                LAMBDA obj : obj = op.object)
        /\ Some(selectObject(Store, op.objectId).selectedObjects,
                LAMBDA obj : obj.id = op.objectId)
        /\ NotSelected(op.objectId) =>
               Some(selectObject(Store, op.objectId).selectedObjects,
                    LAMBDA obj : obj = op.object)

\* an insert whose element could not be put on the existing object track: the
\* object is registered and the timeline carries nothing for it
C28_Witness ==
    /\ IsAdd(op)
    /\ op.hadTrack /\ op.fail = "addElementToTrack"
    /\ MapHas(segmentedObjects, op.objectId)
    /\ ElementPositions(op.objectId) = {}

\* C29: the timeline holds at most one element carrying any given objectId
C29_OneElementPerObject ==
    \A id \in ObjectIds : Cardinality(ElementPositions(id)) <= 1

\* C30: updateSegmentedObject, removeSegmentedObject, selectObject,
\* deselectObject, clearSelection and setSelectionMode leave the tracks of the
\* timeline and their elements as they were
C30_OnlyInsertTouchesTimeline ==
    [][(/\ op' # op
        /\ op'.name \in {"updateSegmentedObject", "removeSegmentedObject",
                          "selectObject", "deselectObject", "clearSelection",
                          "setSelectionMode"})
          => tracks' = tracks]_vars

\* a registered and bound object has been removed and its element is still
\* on the timeline
C30_Witness ==
    /\ IsRemove(op)
    /\ op.registered
    /\ ElementPositions(op.objectId) # {}

\* the positions of the tracks of kind "object"
ObjectTracks(tr) == {i \in DOMAIN tr : tr[i].type = "object"}

\* the least position of an object track
FirstObjectTrack(tr) ==
    CHOOSE i \in ObjectTracks(tr) : \A j \in ObjectTracks(tr) : i <= j

\* C31: an insert that finds object tracks creates no track and changes the
\* first of them only, by appending its element when the insertion does not
\* throw; and no insert takes the number of object tracks above one unless it
\* was above one before
C31_BindsToFirstObjectTrack ==
    [][(IsAdd(op') /\ inserts' = inserts + 1) =>
          /\ ObjectTracks(tracks) # {} =>
                 /\ Len(tracks') = Len(tracks)
                 /\ \A i \in DOMAIN tracks :
                        i # FirstObjectTrack(tracks) => tracks'[i] = tracks[i]
                 /\ LET first == FirstObjectTrack(tracks)
                    IN IF op'.fail = "addElementToTrack"
                       THEN tracks'[first] = tracks[first]
                       ELSE /\ Len(tracks'[first].elements)
                                  = Len(tracks[first].elements) + 1
                            /\ tracks'[first].elements
                                   [Len(tracks'[first].elements)].objectId
                                  = op'.objectId
                            /\ SubSeq(tracks'[first].elements, 1,
                                      Len(tracks[first].elements))
                                  = tracks[first].elements
          /\ Cardinality(ObjectTracks(tracks')) <= 1
                 \/ Cardinality(ObjectTracks(tracks'))
                        = Cardinality(ObjectTracks(tracks))]_vars

\* an insert on a timeline with two object tracks: its element is on the
\* first of them and the second is empty
C31_Witness ==
    /\ IsAdd(op)
    /\ Cardinality(ObjectTracks(tracks)) = 2
    /\ Some(tracks[FirstObjectTrack(tracks)].elements,
            LAMBDA el : el.objectId = op.objectId)
    /\ \A i \in ObjectTracks(tracks) :
           i # FirstObjectTrack(tracks) => tracks[i].elements = <<>>

\* C32: every element an insert puts on the timeline carries the id, videoId,
\* name and confidence of the inserted object, trimStart 0, trimEnd 0,
\* visible true and no operation
C32_ElementCarriesObject ==
    [][(IsAdd(op') /\ inserts' = inserts + 1) =>
          \A i \in DOMAIN tracks' :
              \A k \in DOMAIN tracks'[i].elements :
                  (i \in DOMAIN tracks => k > Len(tracks[i].elements)) =>
                      LET el == tracks'[i].elements[k]
                      IN /\ el.objectId = op'.object.id
                         /\ el.videoId = op'.object.videoId
                         /\ el.name = op'.object.name
                         /\ el.confidence = op'.object.confidence
                         /\ el.trimStart = 0
                         /\ el.trimEnd = 0
                         /\ el.visible = TRUE
                         /\ el.operation = null]_vars

\* an insert of an object named otherwise than by its id has put an element
\* of that name on the timeline
C32_Witness ==
    /\ IsAdd(op)
    /\ op.object.name # op.object.id
    /\ \E p \in ElementPositions(op.objectId) :
           /\ tracks[p[1]].elements[p[2]].name = op.object.name
           /\ tracks[p[1]].elements[p[2]].confidence = op.object.confidence

-----------------------------------------------------------------------------
(* Properties of the object lifecycle and of the mode toggle *)

\* the place of a status on the way segmenting -> tracking -> ready, with
\* error after all of them
StatusRank(status) ==
    CASE status = "segmenting" -> 0
      [] status = "tracking" -> 1
      [] status = "ready" -> 2
      [] status = "error" -> 3

\* C34: no call of updateSegmentedObject takes the status of the object it
\* updates backward on segmenting -> tracking -> ready, error being allowed
\* from every status
C34_StatusMovesForward ==
    [][(IsUpdate(op') /\ updateCalls' = updateCalls + 1
          /\ MapHas(segmentedObjects, op'.objectId)) =>
          StatusRank(segmentedObjects'[op'.objectId].status)
              >= StatusRank(segmentedObjects[op'.objectId].status)]_vars

IsEnable(o) == o.name = "setSelectionMode" /\ o.enabled

\* C35: setSelectionMode(true) sets isSelectionMode and leaves pendingClick,
\* isProcessingSelection, selectedObjects, both registry indices and the
\* timeline as they were
C35_EnableOnlyFlipsFlag ==
    [][IsEnable(op') =>
          /\ isSelectionMode'
          /\ UNCHANGED <<pendingClick, isProcessingSelection, selectedObjects,
                         segmentedObjects, objectsByVideo, tracks>>]_vars

\* selection mode was switched on again over a pending click, a selection
\* and a request in flight, and all three are still there
C35_Witness ==
    /\ IsEnable(op)
    /\ op.hadPending /\ pendingClick # null
    /\ op.hadSelection /\ selectedObjects # <<>>
    /\ op.wasProcessing /\ isProcessingSelection
    /\ DOMAIN segmentedObjects # {}

-----------------------------------------------------------------------------
(* Properties that join the registry, the timeline and the session *)

\* how often the bucket of the video lists the id
Listings(v, id) == Count(GetOrEmpty(objectsByVideo, v), LAMBDA x : x = id)

\* C36: when no insert is of a registered id and no update rewrites id or
\* videoId, every object of the primary map is listed exactly once in the
\* bucket of its videoId and in no other bucket
C36_ListedOnceInOwnBucket ==
    \A id \in DOMAIN segmentedObjects :
        \A v \in VideoIds :
            Listings(v, id) = IF v = segmentedObjects[id].videoId THEN 1 ELSE 0

\* an id was removed and inserted again under the other video, next to
\* another registered object that has been updated
C36_Witness ==
    /\ IsAdd(op)
    /\ op.object.videoId = "v2"
    /\ inserts = 2
    /\ updateCalls > 0
    /\ Cardinality(DOMAIN segmentedObjects) = 1
    /\ Listings("v2", op.objectId) = 1

\* C37: every object getObjectsByVideo returns for a video has that videoId
C37_QueryReturnsOwnVideo ==
    \A v \in VideoIds :
        \A i \in DOMAIN getObjectsByVideo(Store, v) :
            getObjectsByVideo(Store, v)[i].videoId = v

\* C38: the objectId of every element of the timeline is a key of the
\* primary map
C38_ElementsReferToRegistered ==
    \A i \in DOMAIN tracks :
        \A k \in DOMAIN tracks[i].elements :
            MapHas(segmentedObjects, tracks[i].elements[k].objectId)

\* C39: for every media item of the object's video that reports an fps F,
\* the startTime of the element an insert puts on the timeline, multiplied by
\* F, is the least frame of the object
C39_ElementStartsAtFirstFrame ==
    [][(IsAdd(op') /\ inserts' = inserts + 1) =>
          \A i \in DOMAIN tracks' :
              \A k \in DOMAIN tracks'[i].elements :
                  (i \in DOMAIN tracks => k > Len(tracks[i].elements)) =>
                      \A m \in MediaItems :
                          (m.videoId = op'.object.videoId /\ m.fps # NoFps) =>
                              RatEq(tracks'[i].elements[k].startTime,
                                    Ratio(SeqMin(op'.object.frames), m.fps))]_vars

\* C40: a pendingClick that is not null implies isProcessingSelection
C40_PendingImpliesProcessing ==
    pendingClick # null => isProcessingSelection

====
